---- MODULE Spec2Model ----
(***************************************************************************)
(* Model of the system event broker of components/esp32/event.c: the       *)
(* event queue, the dispatch table, the default handlers, the event task   *)
(* and the producer / registration API.                                    *)
(***************************************************************************)
EXTENDS Integers, Sequences, FiniteSets, TLC

(***************************************************************************)
(* Bounds of the model                                                     *)
(***************************************************************************)
MaxSend == 2        \* esp_event_send calls made by external producers
MaxInit == 2        \* esp_event_init calls made by the application
MaxQueueSize == 2   \* small configured queue sizes, besides the default
MaxSetCb == 2       \* esp_event_set_cb calls made by the application

(***************************************************************************)
(* Program constants                                                       *)
(***************************************************************************)
CONFIG_SYSTEM_EVENT_QUEUE_SIZE == 32

\* system_event_id_t, in the order of g_system_event_handle_table
SYSTEM_EVENT_WIFI_READY == 0
SYSTEM_EVENT_SCAN_DONE == 1
SYSTEM_EVENT_STA_START == 2
SYSTEM_EVENT_STA_STOP == 3
SYSTEM_EVENT_STA_CONNECTED == 4
SYSTEM_EVENT_STA_DISCONNECTED == 5
SYSTEM_EVENT_STA_AUTHMODE_CHANGE == 6
SYSTEM_EVENT_STA_GOT_IP == 7
SYSTEM_EVENT_AP_START == 8
SYSTEM_EVENT_AP_STOP == 9
SYSTEM_EVENT_AP_STACONNECTED == 10
SYSTEM_EVENT_AP_STADISCONNECTED == 11
SYSTEM_EVENT_AP_PROBEREQRECVED == 12
SYSTEM_EVENT_MAX == 13

ESP_OK == "ESP_OK"
ESP_FAIL == "ESP_FAIL"
ESP_ERR == "ESP_ERR"          \* any other non-success code of a driver call

WIFI_IF_STA == "sta"
WIFI_IF_AP == "ap"
Interfaces == {WIFI_IF_STA, WIFI_IF_AP}

TCPIP_ADAPTER_DHCP_INIT == "DHCP_INIT"
TCPIP_ADAPTER_DHCP_STARTED == "DHCP_STARTED"
TCPIP_ADAPTER_DHCP_STOPPED == "DHCP_STOPPED"
DhcpStatus == {TCPIP_ADAPTER_DHCP_INIT, TCPIP_ADAPTER_DHCP_STARTED, TCPIP_ADAPTER_DHCP_STOPPED}

NULL == 0

(***************************************************************************)
(* Data                                                                    *)
(***************************************************************************)
\* tcpip_adapter_ip_info_t: ip, netmask, gw.  Every pattern of zero and
\* non-zero words, and one configuration of three different words
IpInfos == [ip : {0, 1}, netmask : {0, 1}, gw : {0, 1}]
             \cup {[ip |-> 5, netmask |-> 3, gw |-> 1]}

ip4_addr_isany_val(a) == a = 0

\* event_info of a got_ip event: the three words of the ip info
\* got_ip with the address copied and the netmask and gw left zero
GotIpInfo_IpOnly(ipi) == <<ipi.ip, 0, 0>>

\* got_ip with netmask and gw exchanged
GotIpInfo_Exchanged(ipi) == <<ipi.ip, ipi.gw, ipi.netmask>>

GotIpInfo(ipi) == <<ipi.ip, ipi.netmask, ipi.gw>>

\* the kinds an external producer posts: every kind of the enumeration, and
\* one value past the sentinel
SendKinds == 0..(SYSTEM_EVENT_MAX + 1)

\* the kinds posted where the interleaving of the API calls is explored: one
\* kind without a default handler and the kind whose handler posts an event
ApiKinds == {SYSTEM_EVENT_WIFI_READY, SYSTEM_EVENT_STA_CONNECTED}

\* event_info a producer attaches to its n-th event, of kind k: the ip info
\* the dhcp client obtained, or a payload word that differs from post to post
SendInfos(k, n) ==
    IF k = SYSTEM_EVENT_STA_GOT_IP
    THEN {GotIpInfo(i) : i \in {j \in IpInfos : j.ip # 0 /\ j.netmask # 0 /\ j.gw # 0}}
    ELSE {<<n>>}

QueueSizes == {1, CONFIG_SYSTEM_EVENT_QUEUE_SIZE}

Tasks == 1..MaxInit
Handles == 1..MaxInit

VARIABLES
    event_init_flag,     \* static bool event_init_flag
    g_event_handler,     \* static xQueueHandle g_event_handler (NULL or a handle)
    g_event_handler_cb,  \* static system_event_cb_t g_event_handler_cb
    g_event_ctx,         \* static void *g_event_ctx
    queue_size,          \* CONFIG_SYSTEM_EVENT_QUEUE_SIZE of this build
    queues,              \* contents of every queue created so far, by handle
    ncreated,            \* number of queues (and event tasks) created so far
    tasks,               \* the event tasks: position, dequeued event, locals
    adapter,             \* state of the wifi driver / tcpip adapter the handlers drive
    setcb,               \* the application's esp_event_set_cb call in progress
    api_ret,             \* what the last API call returned to its caller
    send_blocked,        \* a caller of esp_event_send is suspended on the queue
    log,                 \* history: default-handler stages and callback invocations
    posted,              \* history: every esp_event_send call, its event and result
    next_id,             \* history: number of esp_event_send calls made so far
    nsend,               \* history: esp_event_send calls of external producers
    ninit,               \* history: esp_event_init calls
    nsetcb               \* history: esp_event_set_cb calls

vars == <<event_init_flag, g_event_handler, g_event_handler_cb, g_event_ctx,
          queue_size, queues, ncreated, tasks, adapter, setcb, api_ret,
          send_blocked, log, posted, next_id, nsend, ninit, nsetcb>>

NoEvent == [event_id |-> -1, info |-> <<>>, id |-> 0]

(***************************************************************************)
(* The FreeRTOS queue, as event.c uses it                                  *)
(***************************************************************************)
\* a send that makes room on a full queue by discarding its oldest item
xQueueSendToBack_Overwrite(q, item, size, ticks) ==
    IF Len(q) < size
    THEN [ret |-> "pdPASS", q |-> Append(q, item), blocked |-> FALSE]
    ELSE [ret |-> "errQUEUE_FULL", q |-> Append(Tail(q), item), blocked |-> FALSE]

\* a send that reports a full queue and stores the item all the same
xQueueSendToBack_KeepOnFull(q, item, size, ticks) ==
    IF Len(q) < size
    THEN [ret |-> "pdPASS", q |-> Append(q, item), blocked |-> FALSE]
    ELSE [ret |-> "errQUEUE_FULL", q |-> Append(q, item), blocked |-> FALSE]

\* a send on a queue without a capacity
xQueueSendToBack_Unbounded(q, item, size, ticks) ==
    [ret |-> "pdPASS", q |-> Append(q, item), blocked |-> FALSE]

\* xQueueSendToBack(q, item, ticks) on a queue of the given length
xQueueSendToBack(q, item, size, ticks) ==
    IF Len(q) < size
    THEN [ret |-> "pdPASS", q |-> Append(q, item), blocked |-> FALSE]
    ELSE IF ticks = 0
         THEN [ret |-> "errQUEUE_FULL", q |-> q, blocked |-> FALSE]
         ELSE [ret |-> "waiting", q |-> q, blocked |-> TRUE]

\* a send that waits a tick for a free slot
SendTicksToWait_OneTick == 2 - 1

\* the ticks esp_event_send passes to xQueueSendToBack
SendTicksToWait == 0

\* an esp_event_send that reports ESP_OK whatever xQueueSendToBack returns
esp_event_send_AlwaysOk(q, event, size) ==
    LET r == xQueueSendToBack(q, event, size, SendTicksToWait)
    IN  [q |-> r.q, blocked |-> r.blocked, ret |-> ESP_OK]

\* esp_event_send(event) on the queue contents q: the new contents and the result
esp_event_send(q, event, size) ==
    LET r == xQueueSendToBack(q, event, size, SendTicksToWait)
    IN  [q |-> r.q,
         blocked |-> r.blocked,
         ret |-> IF r.ret # "pdPASS" THEN ESP_FAIL ELSE ESP_OK]

(***************************************************************************)
(* Default handlers.  a is the adapter state, r the results the driver     *)
(* calls of this run return.  The result is the adapter state afterwards,  *)
(* the events the handler passes to esp_event_send, and its return value.  *)
(***************************************************************************)
\* reg_rxcb, get_mac, set_sta_ip: the code esp_wifi_reg_rxcb, esp_wifi_get_mac
\* and esp_wifi_set_sta_ip return; status, sta_ip: what
\* tcpip_adapter_dhcpc_get_status and tcpip_adapter_get_ip_info store
\* tcpip_fail: the tcpip_adapter call of this run that returns non-success and
\* does not take effect, if any
TcpipCalls == {"tcpip_adapter_start", "tcpip_adapter_stop", "tcpip_adapter_up",
               "tcpip_adapter_down", "tcpip_adapter_dhcpc_start"}

DriverResults == [reg_rxcb : {ESP_OK, ESP_ERR}, get_mac : {ESP_OK, ESP_ERR},
                  set_sta_ip : {ESP_OK, ESP_ERR}, status : DhcpStatus, sta_ip : IpInfos,
                  tcpip_fail : TcpipCalls \cup {"none"}]

\* the results of a run in which every driver call succeeds and the adapter
\* reports the given status and ip info
Results(status, sta_ip) ==
    [reg_rxcb |-> ESP_OK, get_mac |-> ESP_OK, set_sta_ip |-> ESP_OK,
     status |-> status, sta_ip |-> sta_ip, tcpip_fail |-> "none"]

NoResults == Results(TCPIP_ADAPTER_DHCP_INIT, [ip |-> 0, netmask |-> 0, gw |-> 0])

\* what the driver and the adapter would answer during the default stage of
\* an event of kind k: the answers to the calls the handler of k contains;
\* the answers to the calls it does not contain are left as in NoResults;
\* every tcpip_adapter call succeeds
ResultsRead(k) ==
    LET regs == IF k \in {SYSTEM_EVENT_STA_CONNECTED, SYSTEM_EVENT_STA_DISCONNECTED,
                          SYSTEM_EVENT_AP_START, SYSTEM_EVENT_AP_STOP}
                THEN {ESP_OK, ESP_ERR} ELSE {NoResults.reg_rxcb}
        macs == IF k \in {SYSTEM_EVENT_STA_START, SYSTEM_EVENT_AP_START}
                THEN {ESP_OK, ESP_ERR} ELSE {NoResults.get_mac}
        sets == IF k = SYSTEM_EVENT_STA_GOT_IP
                THEN {ESP_OK, ESP_ERR} ELSE {NoResults.set_sta_ip}
        stats == IF k = SYSTEM_EVENT_STA_CONNECTED THEN DhcpStatus ELSE {NoResults.status}
        ips == IF k = SYSTEM_EVENT_STA_CONNECTED THEN IpInfos ELSE {NoResults.sta_ip}
    IN  [reg_rxcb : regs, get_mac : macs, set_sta_ip : sets, status : stats, sta_ip : ips,
         tcpip_fail : {NoResults.tcpip_fail}]

\* the tcpip_adapter calls (those that change the adapter) the handler of
\* kind k contains
TcpipCallsOf(k) ==
    CASE k \in {SYSTEM_EVENT_STA_START, SYSTEM_EVENT_AP_START} -> {"tcpip_adapter_start"}
      [] k \in {SYSTEM_EVENT_STA_STOP, SYSTEM_EVENT_AP_STOP} -> {"tcpip_adapter_stop"}
      [] k = SYSTEM_EVENT_STA_CONNECTED -> {"tcpip_adapter_up", "tcpip_adapter_dhcpc_start"}
      [] k = SYSTEM_EVENT_STA_DISCONNECTED -> {"tcpip_adapter_down"}
      [] OTHER -> {}

\* the same answers, where one of the tcpip_adapter calls of the handler may
\* return non-success; tcpip_adapter_get_ip_info is called by the
\* sta_connected handler only when the status is TCPIP_ADAPTER_DHCP_STOPPED
\* (event.c:150-153)
ResultsAdapter(k) ==
    {[r EXCEPT !.tcpip_fail = f] :
        r \in {x \in ResultsRead(k) :
                  x.status # TCPIP_ADAPTER_DHCP_STOPPED => x.sta_ip = NoResults.sta_ip},
        f \in TcpipCallsOf(k) \cup {"none"}}

\* the value a tcpip_adapter call leaves in a field of the adapter: the new
\* value v, or the old value when the call is the one that fails; the
\* handlers do not look at what the call returns
Tcpip(r, call, old, v) == IF r.tcpip_fail = call THEN old ELSE v

\* WIFI_API_CALL_CHECK(info, api_call, ret): TRUE when the macro returns __err
WIFI_API_CALL_CHECK(err, ret) == ret # err

\* a got_ip handler that posts the event it was given once more
system_event_sta_got_ip_default_Repost(a, event, r) ==
    IF WIFI_API_CALL_CHECK(r.set_sta_ip, ESP_OK)
    THEN [a |-> a, send |-> <<>>, ret |-> r.set_sta_ip]
    ELSE [a |-> [a EXCEPT !.sta_ip_set = TRUE],
          send |-> <<[event_id |-> event.event_id, info |-> event.info]>>, ret |-> ESP_OK]

\* system_event_sta_got_ip_default, event.c:83-94: esp_wifi_set_sta_ip, and
\* no esp_event_send
system_event_sta_got_ip_default(a, event, r) ==
    IF WIFI_API_CALL_CHECK(r.set_sta_ip, ESP_OK)
    THEN [a |-> a, send |-> <<>>, ret |-> r.set_sta_ip]
    ELSE [a |-> [a EXCEPT !.sta_ip_set = TRUE], send |-> <<>>, ret |-> ESP_OK]

system_event_ap_start_handle_default(a, event, r) ==
    IF WIFI_API_CALL_CHECK(r.reg_rxcb, ESP_OK)
    THEN [a |-> a, send |-> <<>>, ret |-> r.reg_rxcb]
    ELSE LET a1 == [a EXCEPT !.rxcb[WIFI_IF_AP] = TRUE]
         IN  IF WIFI_API_CALL_CHECK(r.get_mac, ESP_OK)
             THEN [a |-> a1, send |-> <<>>, ret |-> r.get_mac]
             ELSE [a |-> [a1 EXCEPT !.mac[WIFI_IF_AP] = TRUE,
                                    !.ip_read[WIFI_IF_AP] = TRUE,
                                    !.started[WIFI_IF_AP] =
                                        Tcpip(r, "tcpip_adapter_start", @, TRUE)],
                   send |-> <<>>, ret |-> ESP_OK]

system_event_ap_stop_handle_default(a, event, r) ==
    IF WIFI_API_CALL_CHECK(r.reg_rxcb, ESP_OK)
    THEN [a |-> a, send |-> <<>>, ret |-> r.reg_rxcb]
    ELSE [a |-> [a EXCEPT !.rxcb[WIFI_IF_AP] = FALSE,
                          !.started[WIFI_IF_AP] = Tcpip(r, "tcpip_adapter_stop", @, FALSE)],
          send |-> <<>>, ret |-> ESP_OK]

system_event_sta_start_handle_default(a, event, r) ==
    IF WIFI_API_CALL_CHECK(r.get_mac, ESP_OK)
    THEN [a |-> a, send |-> <<>>, ret |-> r.get_mac]
    ELSE [a |-> [a EXCEPT !.mac[WIFI_IF_STA] = TRUE,
                          !.ip_read[WIFI_IF_STA] = TRUE,
                          !.started[WIFI_IF_STA] = Tcpip(r, "tcpip_adapter_start", @, TRUE)],
          send |-> <<>>, ret |-> ESP_OK]

system_event_sta_stop_handle_default(a, event, r) ==
    [a |-> [a EXCEPT !.started[WIFI_IF_STA] = Tcpip(r, "tcpip_adapter_stop", @, FALSE)],
     send |-> <<>>, ret |-> ESP_OK]

\* the test of event.c:155 on the ip info read from the adapter
StaticIpValid(sta_ip) ==
    ~(ip4_addr_isany_val(sta_ip.ip) \/ ip4_addr_isany_val(sta_ip.netmask)
        \/ ip4_addr_isany_val(sta_ip.gw))

\* a handler that tests the ip word alone
system_event_sta_connected_handle_default_IpOnly(a, event, r) ==
    IF WIFI_API_CALL_CHECK(r.reg_rxcb, ESP_OK)
    THEN [a |-> a, send |-> <<>>, ret |-> r.reg_rxcb]
    ELSE LET a1 == [a EXCEPT !.rxcb[WIFI_IF_STA] = TRUE, !.sta_up = TRUE]
         IN  IF r.status = TCPIP_ADAPTER_DHCP_STOPPED /\ ~ip4_addr_isany_val(r.sta_ip.ip)
             THEN [a |-> a1,
                   send |-> <<[event_id |-> SYSTEM_EVENT_STA_GOT_IP,
                               info |-> GotIpInfo(r.sta_ip)]>>,
                   ret |-> ESP_OK]
             ELSE [a |-> a1, send |-> <<>>, ret |-> ESP_OK]

\* a handler that posts the event when the static ip info is not valid
system_event_sta_connected_handle_default_Inverted(a, event, r) ==
    IF WIFI_API_CALL_CHECK(r.reg_rxcb, ESP_OK)
    THEN [a |-> a, send |-> <<>>, ret |-> r.reg_rxcb]
    ELSE LET a1 == [a EXCEPT !.rxcb[WIFI_IF_STA] = TRUE, !.sta_up = TRUE]
         IN  IF r.status = TCPIP_ADAPTER_DHCP_STOPPED /\ ~StaticIpValid(r.sta_ip)
             THEN [a |-> a1,
                   send |-> <<[event_id |-> SYSTEM_EVENT_STA_GOT_IP,
                               info |-> GotIpInfo(r.sta_ip)]>>,
                   ret |-> ESP_OK]
             ELSE [a |-> a1, send |-> <<>>, ret |-> ESP_OK]

\* a handler that calls esp_wifi_reg_rxcb without WIFI_API_CALL_CHECK
system_event_sta_connected_handle_default_RegUnchecked(a, event, r) ==
    LET a1 == [a EXCEPT !.rxcb[WIFI_IF_STA] = IF r.reg_rxcb = ESP_OK THEN TRUE ELSE @,
                        !.sta_up = Tcpip(r, "tcpip_adapter_up", @, TRUE)]
    IN  IF r.status = TCPIP_ADAPTER_DHCP_INIT
        THEN [a |-> [a1 EXCEPT !.dhcpc_started =
                                  Tcpip(r, "tcpip_adapter_dhcpc_start", @, TRUE)],
              send |-> <<>>, ret |-> ESP_OK]
        ELSE IF r.status = TCPIP_ADAPTER_DHCP_STOPPED /\ StaticIpValid(r.sta_ip)
             THEN [a |-> a1,
                   send |-> <<[event_id |-> SYSTEM_EVENT_STA_GOT_IP,
                               info |-> GotIpInfo(r.sta_ip)]>>,
                   ret |-> ESP_OK]
             ELSE [a |-> a1, send |-> <<>>, ret |-> ESP_OK]

\* a handler that takes every status but TCPIP_ADAPTER_DHCP_INIT for
\* TCPIP_ADAPTER_DHCP_STOPPED
system_event_sta_connected_handle_default_ElseStatic(a, event, r) ==
    IF WIFI_API_CALL_CHECK(r.reg_rxcb, ESP_OK)
    THEN [a |-> a, send |-> <<>>, ret |-> r.reg_rxcb]
    ELSE LET a1 == [a EXCEPT !.rxcb[WIFI_IF_STA] = TRUE,
                             !.sta_up = Tcpip(r, "tcpip_adapter_up", @, TRUE)]
         IN  IF r.status = TCPIP_ADAPTER_DHCP_INIT
             THEN [a |-> [a1 EXCEPT !.dhcpc_started =
                                       Tcpip(r, "tcpip_adapter_dhcpc_start", @, TRUE)],
                   send |-> <<>>, ret |-> ESP_OK]
             ELSE IF StaticIpValid(r.sta_ip)
                  THEN [a |-> a1,
                        send |-> <<[event_id |-> SYSTEM_EVENT_STA_GOT_IP,
                                    info |-> GotIpInfo(r.sta_ip)]>>,
                        ret |-> ESP_OK]
                  ELSE [a |-> a1, send |-> <<>>, ret |-> ESP_OK]

\* a handler that leaves the dhcp client alone when it is not yet started
system_event_sta_connected_handle_default_NoDhcpc(a, event, r) ==
    IF WIFI_API_CALL_CHECK(r.reg_rxcb, ESP_OK)
    THEN [a |-> a, send |-> <<>>, ret |-> r.reg_rxcb]
    ELSE LET a1 == [a EXCEPT !.rxcb[WIFI_IF_STA] = TRUE,
                             !.sta_up = Tcpip(r, "tcpip_adapter_up", @, TRUE)]
         IN  IF r.status = TCPIP_ADAPTER_DHCP_STOPPED /\ StaticIpValid(r.sta_ip)
             THEN [a |-> a1,
                   send |-> <<[event_id |-> SYSTEM_EVENT_STA_GOT_IP,
                               info |-> GotIpInfo(r.sta_ip)]>>,
                   ret |-> ESP_OK]
             ELSE [a |-> a1, send |-> <<>>, ret |-> ESP_OK]

\* system_event_sta_connected_handle_default, event.c:138-169
system_event_sta_connected_handle_default(a, event, r) ==
    IF WIFI_API_CALL_CHECK(r.reg_rxcb, ESP_OK)
    THEN [a |-> a, send |-> <<>>, ret |-> r.reg_rxcb]
    ELSE LET a1 == [a EXCEPT !.rxcb[WIFI_IF_STA] = TRUE,
                             !.sta_up = Tcpip(r, "tcpip_adapter_up", @, TRUE)]
             status == r.status
         IN  IF status = TCPIP_ADAPTER_DHCP_INIT
             THEN [a |-> [a1 EXCEPT !.dhcpc_started =
                                       Tcpip(r, "tcpip_adapter_dhcpc_start", @, TRUE)],
                   send |-> <<>>, ret |-> ESP_OK]
             ELSE IF status = TCPIP_ADAPTER_DHCP_STOPPED
                  THEN LET sta_ip == r.sta_ip
                       IN  IF StaticIpValid(sta_ip)
                           THEN [a |-> a1,
                                 send |-> <<[event_id |-> SYSTEM_EVENT_STA_GOT_IP,
                                             info |-> GotIpInfo(sta_ip)]>>,
                                 ret |-> ESP_OK]
                           ELSE [a |-> a1, send |-> <<>>, ret |-> ESP_OK]
                  ELSE [a |-> a1, send |-> <<>>, ret |-> ESP_OK]

system_event_sta_disconnected_handle_default(a, event, r) ==
    LET a1 == [a EXCEPT !.sta_up = Tcpip(r, "tcpip_adapter_down", @, FALSE)]
    IN  IF WIFI_API_CALL_CHECK(r.reg_rxcb, ESP_OK)
        THEN [a |-> a1, send |-> <<>>, ret |-> r.reg_rxcb]
        ELSE [a |-> [a1 EXCEPT !.rxcb[WIFI_IF_STA] = FALSE], send |-> <<>>, ret |-> ESP_OK]

(***************************************************************************)
(* Dispatch table                                                          *)
(***************************************************************************)
\* the initialiser of the table, event.c:67-80, row by row
TableRows ==
    << <<SYSTEM_EVENT_WIFI_READY, "NULL">>,
       <<SYSTEM_EVENT_SCAN_DONE, "NULL">>,
       <<SYSTEM_EVENT_STA_START, "sta_start">>,
       <<SYSTEM_EVENT_STA_STOP, "sta_stop">>,
       <<SYSTEM_EVENT_STA_CONNECTED, "sta_connected">>,
       <<SYSTEM_EVENT_STA_DISCONNECTED, "sta_disconnected">>,
       <<SYSTEM_EVENT_STA_AUTHMODE_CHANGE, "NULL">>,
       <<SYSTEM_EVENT_STA_GOT_IP, "sta_got_ip">>,
       <<SYSTEM_EVENT_AP_START, "ap_start">>,
       <<SYSTEM_EVENT_AP_STOP, "ap_stop">>,
       <<SYSTEM_EVENT_AP_STACONNECTED, "NULL">>,
       <<SYSTEM_EVENT_AP_STADISCONNECTED, "NULL">>,
       <<SYSTEM_EVENT_AP_PROBEREQRECVED, "NULL">>,
       <<SYSTEM_EVENT_MAX, "NULL">> >>

\* the C array made of a sequence of rows: indexed from 0
TableOf(rows) ==
    [i \in 0..(Len(rows) - 1) |-> [event_id |-> rows[i + 1][1], event_handle |-> rows[i + 1][2]]]

\* a table whose sta_start and sta_stop rows are written in the other order
g_system_event_handle_table_RowsExchanged ==
    TableOf([TableRows EXCEPT ![3] = TableRows[4], ![4] = TableRows[3]])

\* a table whose wifi_ready row names the sta_start handler
g_system_event_handle_table_ReadyHandled ==
    TableOf([TableRows EXCEPT ![1] = <<SYSTEM_EVENT_WIFI_READY, "sta_start">>])

\* g_system_event_handle_table, event.c:66-81; nothing in event.c assigns to
\* it, it is read at event.c:291-294 only
g_system_event_handle_table == TableOf(TableRows)

\* the call through the table's function pointer
CallHandle(h, a, event, r) ==
    CASE h = "sta_start" -> system_event_sta_start_handle_default(a, event, r)
      [] h = "sta_stop" -> system_event_sta_stop_handle_default(a, event, r)
      [] h = "sta_connected" -> system_event_sta_connected_handle_default(a, event, r)
      [] h = "sta_disconnected" -> system_event_sta_disconnected_handle_default(a, event, r)
      [] h = "sta_got_ip" -> system_event_sta_got_ip_default(a, event, r)
      [] h = "ap_start" -> system_event_ap_start_handle_default(a, event, r)
      [] h = "ap_stop" -> system_event_ap_stop_handle_default(a, event, r)

\* a default stage without the test of event.c:290: a kind the table does
\* not hold is served by the handler of the table's first non-NULL entry
DefaultStage_Unchecked(a, event, r) ==
    IF event.event_id < SYSTEM_EVENT_MAX
         /\ event.event_id = g_system_event_handle_table[event.event_id].event_id
    THEN LET h == g_system_event_handle_table[event.event_id].event_handle
         IN  IF h # "NULL"
             THEN [handle |-> h] @@ CallHandle(h, a, event, r)
             ELSE [handle |-> "NULL", a |-> a, send |-> <<>>, ret |-> ESP_OK]
    ELSE [handle |-> "sta_start"] @@ CallHandle("sta_start", a, event, r)

\* the default stage of esp_system_event_handler (event.c:291-299): which
\* handler ran, and what it did
DefaultStage(a, event, r) ==
    IF event.event_id < SYSTEM_EVENT_MAX
         /\ event.event_id = g_system_event_handle_table[event.event_id].event_id
    THEN LET h == g_system_event_handle_table[event.event_id].event_handle
         IN  IF h # "NULL"
             THEN [handle |-> h] @@ CallHandle(h, a, event, r)
             ELSE [handle |-> "NULL", a |-> a, send |-> <<>>, ret |-> ESP_OK]
    ELSE [handle |-> "mismatch", a |-> a, send |-> <<>>, ret |-> ESP_OK]

(***************************************************************************)
(* Initial state: the statics of event.c before any call, an adapter that  *)
(* is down, and the configuration of the build and of the tcpip adapter.   *)
(***************************************************************************)
IdleTask == [pc |-> "none", q |-> NULL, evt |-> NoEvent, r |-> NoResults, dret |-> ESP_OK,
             cb |-> NULL, ret |-> ESP_OK]

\* rxcb: an inbound-packet callback is registered (esp_wifi_reg_rxcb);
\* started: tcpip_adapter_start / _stop; mac, ip_read: the handler fetched the
\* link address / the cached ip info; sta_up: tcpip_adapter_up / _down;
\* sta_ip_set: esp_wifi_set_sta_ip; dhcpc_started: tcpip_adapter_dhcpc_start
InitAdapter ==
    [rxcb |-> [i \in Interfaces |-> FALSE],
     started |-> [i \in Interfaces |-> FALSE],
     mac |-> [i \in Interfaces |-> FALSE],
     ip_read |-> [i \in Interfaces |-> FALSE],
     sta_up |-> FALSE,
     sta_ip_set |-> FALSE,
     dhcpc_started |-> FALSE]

InitStatics ==
    /\ event_init_flag = FALSE
    /\ g_event_handler = NULL
    /\ g_event_handler_cb = NULL
    /\ g_event_ctx = NULL
    /\ queues = [h \in Handles |-> <<>>]
    /\ ncreated = 0
    /\ tasks = [t \in Tasks |-> IdleTask]
    /\ setcb = [pc |-> "idle", cb |-> NULL, ctx |-> NULL, old_cb |-> NULL]
    /\ api_ret = [op |-> "none", ret |-> ESP_OK]
    /\ send_blocked = FALSE
    /\ log = <<>>
    /\ posted = <<>>
    /\ next_id = 0
    /\ nsend = 0
    /\ ninit = 0
    /\ nsetcb = 0

Init ==
    /\ InitStatics
    /\ queue_size \in QueueSizes
    /\ adapter = InitAdapter

(***************************************************************************)
(* Registration / producer API                                             *)
(***************************************************************************)
\* what esp_event_init leaves in event_init_flag when it succeeds: the
\* function never assigns the flag
FlagAfterInit(flag) == flag

\* esp_event_init(cb, ctx), event.c:352-365
EspEventInit(cb, ctx) ==
    /\ ninit' = ninit + 1
    /\ IF event_init_flag
       THEN /\ api_ret' = [op |-> "esp_event_init", ret |-> ESP_FAIL]
            /\ UNCHANGED <<event_init_flag, g_event_handler, g_event_handler_cb,
                           g_event_ctx, queues, ncreated, tasks>>
       ELSE /\ g_event_handler_cb' = cb
            /\ g_event_ctx' = ctx
            /\ ncreated' = ncreated + 1
            /\ g_event_handler' = ncreated + 1
            /\ queues' = [queues EXCEPT ![ncreated + 1] = <<>>]
            /\ tasks' = [tasks EXCEPT ![ncreated + 1] = [IdleTask EXCEPT !.pc = "recv"]]
            /\ event_init_flag' = FlagAfterInit(event_init_flag)
            /\ api_ret' = [op |-> "esp_event_init", ret |-> ESP_OK]
    /\ UNCHANGED <<queue_size, adapter, setcb, send_blocked, log, posted, next_id,
                   nsend, nsetcb>>

\* what esp_event_set_cb returns to its caller, event.c:326: old_cb, a
\* system_event_cb_t; the context it overwrites is not read
SetCbReturn(old_cb, old_ctx) == [cb |-> old_cb]

\* esp_event_set_cb(cb, ctx), event.c:321-323: old_cb is read and
\* g_event_handler_cb is written
EspEventSetCbWriteCb(cb, ctx) ==
    /\ setcb.pc = "idle"
    /\ nsetcb' = nsetcb + 1
    /\ setcb' = [pc |-> "write_ctx", cb |-> cb, ctx |-> ctx, old_cb |-> g_event_handler_cb]
    /\ g_event_handler_cb' = cb
    /\ UNCHANGED <<event_init_flag, g_event_handler, g_event_ctx, queue_size, queues,
                   ncreated, tasks, adapter, api_ret, send_blocked, log, posted,
                   next_id, nsend, ninit>>

\* esp_event_set_cb, event.c:324-326: g_event_ctx is written and old_cb returned
EspEventSetCbWriteCtx ==
    /\ setcb.pc = "write_ctx"
    /\ g_event_ctx' = setcb.ctx
    /\ api_ret' = [op |-> "esp_event_set_cb", ret |-> SetCbReturn(setcb.old_cb, g_event_ctx)]
    /\ setcb' = [setcb EXCEPT !.pc = "idle"]
    /\ UNCHANGED <<event_init_flag, g_event_handler, g_event_handler_cb, queue_size,
                   queues, ncreated, tasks, adapter, send_blocked, log, posted,
                   next_id, nsend, ninit, nsetcb>>

\* esp_event_get_handler(), event.c:347-350
EspEventGetHandler ==
    /\ api_ret.op # "esp_event_get_handler"
    /\ api_ret' = [op |-> "esp_event_get_handler", ret |-> g_event_handler]
    /\ UNCHANGED <<event_init_flag, g_event_handler, g_event_handler_cb, g_event_ctx,
                   queue_size, queues, ncreated, tasks, adapter, setcb, send_blocked,
                   log, posted, next_id, nsend, ninit, nsetcb>>

\* esp_event_send(event) called by a producer outside the event task,
\* event.c:329-345
EspEventSend(k, info) ==
    /\ g_event_handler # NULL
    /\ ~send_blocked
    /\ LET event == [event_id |-> k, info |-> info, id |-> next_id + 1]
           r == esp_event_send(queues[g_event_handler], event, queue_size)
       IN  /\ queues' = [queues EXCEPT ![g_event_handler] = r.q]
           /\ send_blocked' = r.blocked
           /\ api_ret' = [op |-> "esp_event_send", ret |-> r.ret]
           /\ posted' = Append(posted, [evt |-> event, ret |-> r.ret, by |-> "producer"])
    /\ next_id' = next_id + 1
    /\ nsend' = nsend + 1
    /\ UNCHANGED <<event_init_flag, g_event_handler, g_event_handler_cb, g_event_ctx,
                   queue_size, ncreated, tasks, adapter, setcb, log, ninit, nsetcb>>

(***************************************************************************)
(* The event task, esp_system_event_task, event.c:304-317                  *)
(***************************************************************************)
\* xQueueReceive(g_event_handler, &evt, portMAX_DELAY): the handle is read
\* when the call is made; on an empty queue the task sleeps on that handle
\* an event task that calls esp_wifi_post_event_to_user first
AfterReceive_PostFirst == "post"

\* what the task does with a received event, event.c:310, 283-299: it calls
\* esp_system_event_handler, which starts with the default stage
AfterReceive == "handler"

TaskReceive(t) ==
    /\ tasks[t].pc = "recv"
    /\ LET h == IF tasks[t].q # NULL THEN tasks[t].q ELSE g_event_handler
       IN  IF queues[h] # <<>>
           THEN /\ tasks' = [tasks EXCEPT ![t] = [tasks[t] EXCEPT !.pc = AfterReceive, !.q = NULL,
                                                                    !.evt = Head(queues[h])]]
                /\ queues' = [queues EXCEPT ![h] = Tail(queues[h])]
           ELSE /\ tasks[t].q = NULL
                /\ tasks' = [tasks EXCEPT ![t].q = h]
                /\ UNCHANGED queues
    /\ UNCHANGED <<event_init_flag, g_event_handler, g_event_handler_cb, g_event_ctx,
                   queue_size, ncreated, adapter, setcb, api_ret, send_blocked, log,
                   posted, next_id, nsend, ninit, nsetcb>>

\* a default stage that returns from esp_system_event_handler when the
\* default handler fails
AfterDefault_ReturnOnFail(ret) == IF ret = ESP_OK THEN "post" ELSE "recv"

\* where esp_system_event_handler goes after the default stage, event.c:294-301:
\* the value the handler returned is not looked at
AfterDefault(ret) == "post"

\* esp_system_event_handler up to the call of esp_wifi_post_event_to_user,
\* event.c:285-299: the default handler of the event, with its esp_event_send
TaskDefaultHandler(t, r) ==
    /\ tasks[t].pc = "handler"
    /\ LET event == tasks[t].evt
           d == DefaultStage(adapter, event, r)
           synth == IF d.send # <<>>
                    THEN d.send[1] @@ [id |-> next_id + 1]
                    ELSE NoEvent
           s == esp_event_send(queues[g_event_handler], synth, queue_size)
       IN  /\ adapter' = d.a
           /\ IF d.send # <<>>
              THEN /\ queues' = [queues EXCEPT ![g_event_handler] = s.q]
                   /\ next_id' = next_id + 1
                   /\ posted' = Append(posted, [evt |-> synth, ret |-> s.ret,
                                                 by |-> "handler"])
              ELSE UNCHANGED <<queues, next_id, posted>>
           /\ log' = Append(log, [stage |-> "default", evt |-> event, handle |-> d.handle,
                                  ret |-> d.ret, sent |-> d.send # <<>>,
                                  cb |-> NULL, ctx |-> NULL, task |-> t])
           /\ tasks' = [tasks EXCEPT ![t].pc = AfterDefault(d.ret), ![t].r = r,
                                     ![t].dret = d.ret]
    /\ UNCHANGED <<event_init_flag, g_event_handler, g_event_handler_cb, g_event_ctx,
                   queue_size, ncreated, setcb, api_ret, send_blocked, nsend, ninit,
                   nsetcb>>

\* esp_wifi_post_event_to_user, event.c:180: the test of g_event_handler_cb
TaskPostTest(t) ==
    /\ tasks[t].pc = "post"
    /\ IF g_event_handler_cb # NULL
       THEN /\ tasks' = [tasks EXCEPT ![t].pc = "call", ![t].cb = g_event_handler_cb]
            /\ UNCHANGED log
       ELSE /\ tasks' = [tasks EXCEPT ![t].pc = "recv", ![t].evt = NoEvent,
                                      ![t].r = NoResults, ![t].dret = ESP_OK,
                                      ![t].ret = ESP_OK]
            /\ log' = Append(log, [stage |-> "no_callback", evt |-> tasks[t].evt,
                                   handle |-> "NULL", ret |-> ESP_OK, sent |-> FALSE,
                                   cb |-> NULL, ctx |-> NULL, task |-> t])
    /\ UNCHANGED <<event_init_flag, g_event_handler, g_event_handler_cb, g_event_ctx,
                   queue_size, queues, ncreated, adapter, setcb, api_ret, send_blocked,
                   posted, next_id, nsend, ninit, nsetcb>>

\* esp_wifi_post_event_to_user, event.c:181: the callback is called with
\* g_event_ctx and the event; the task then loops (event.c:311-315)
TaskPostCall(t, ret) ==
    /\ tasks[t].pc = "call"
    /\ log' = Append(log, [stage |-> "callback", evt |-> tasks[t].evt, handle |-> "NULL",
                           ret |-> ESP_OK, sent |-> FALSE,
                           cb |-> tasks[t].cb, ctx |-> g_event_ctx, task |-> t])
    /\ tasks' = [tasks EXCEPT ![t].pc = "recv", ![t].evt = NoEvent, ![t].r = NoResults,
                              ![t].dret = ESP_OK, ![t].cb = NULL, ![t].ret = ret]
    /\ UNCHANGED <<event_init_flag, g_event_handler, g_event_handler_cb, g_event_ctx,
                   queue_size, queues, ncreated, adapter, setcb, api_ret, send_blocked,
                   posted, next_id, nsend, ninit, nsetcb>>

\* an esp_system_event_handler that goes on to the callback stage after
\* finding its argument NULL
AfterNullCheck_Post == "post"

\* where the task is after esp_system_event_handler found its argument NULL,
\* event.c:285-288 and 311-315: the function has returned, the task loops
AfterNullCheck == "recv"

\* esp_system_event_handler(NULL), event.c:285-288, and the task's test of
\* what it returned, event.c:311-313.  esp_system_event_task itself always
\* passes &evt (event.c:310); this is the function called by task t with a
\* null pointer in place of it.
EspSystemEventHandlerNull(t) ==
    /\ tasks[t].pc = "handler"
    /\ log' = Append(log, [stage |-> "null", evt |-> NoEvent, handle |-> "NULL",
                           ret |-> ESP_FAIL, sent |-> FALSE,
                           cb |-> NULL, ctx |-> NULL, task |-> t])
    /\ tasks' = [tasks EXCEPT ![t].pc = AfterNullCheck, ![t].evt = NoEvent,
                              ![t].r = NoResults, ![t].dret = ESP_OK,
                              ![t].ret = ESP_FAIL]
    /\ UNCHANGED <<event_init_flag, g_event_handler, g_event_handler_cb, g_event_ctx,
                   queue_size, queues, ncreated, adapter, setcb, api_ret, send_blocked,
                   posted, next_id, nsend, ninit, nsetcb>>

\* the registration made by the next esp_event_init or esp_event_set_cb call:
\* a callback (or none) and a context, both named after the call
NextReg == ninit + nsetcb + 1

\* the station has a static ip info whose words are all non-zero, and its dhcp
\* client is stopped
StaticConfigs == {i \in IpInfos : StaticIpValid(i)}

ResultsStatic(k) ==
    {r \in ResultsRead(k) :
        k = SYSTEM_EVENT_STA_CONNECTED
           => r.status = TCPIP_ADAPTER_DHCP_STOPPED /\ r.sta_ip \in StaticConfigs}

\* the answers of the driver and the adapter, with a station configured
\* statically or with any station
Answers(static, k) == IF static THEN ResultsStatic(k) ELSE ResultsRead(k)

\* a step of an event task, the driver and the adapter giving one of Answers
TaskSteps(static) ==
    \/ \E t \in Tasks : TaskReceive(t)
    \/ \E t \in Tasks : \E r \in Answers(static, tasks[t].evt.event_id) :
            TaskDefaultHandler(t, r)
    \/ \E t \in Tasks : TaskPostTest(t)
    \/ \E t \in Tasks : \E ret \in {ESP_OK, ESP_FAIL} : TaskPostCall(t, ret)

TaskStep == TaskSteps(FALSE)

(***************************************************************************)
(* Spec: the application calls esp_event_init (any number of times),       *)
(* producers post events, the event tasks run.                             *)
(***************************************************************************)
Next ==
    \/ ninit < MaxInit /\ EspEventInit(NextReg, NextReg)
    \/ nsend < MaxSend /\ \E k \in ApiKinds : \E info \in SendInfos(k, nsend + 1) :
                             EspEventSend(k, info)
    \/ TaskStep

Spec == Init /\ [][Next]_vars

(***************************************************************************)
(* SpecBroker: esp_event_init has returned ESP_OK once, in a build with the *)
(* default queue size; producers post events of every kind, the event task *)
(* runs with every result the driver calls can return.                     *)
(***************************************************************************)
InitAfterInit ==
    /\ adapter = InitAdapter
    /\ event_init_flag = FlagAfterInit(FALSE)
    /\ g_event_handler = 1
    /\ \E c \in {NULL, 1} : g_event_handler_cb = c
    /\ g_event_ctx = 1
    /\ queues = [h \in Handles |-> <<>>]
    /\ ncreated = 1
    /\ tasks = [t \in Tasks |-> IF t = 1 THEN [IdleTask EXCEPT !.pc = "recv"] ELSE IdleTask]
    /\ setcb = [pc |-> "idle", cb |-> NULL, ctx |-> NULL, old_cb |-> NULL]
    /\ api_ret = [op |-> "esp_event_init", ret |-> ESP_OK]
    /\ send_blocked = FALSE
    /\ log = <<>>
    /\ posted = <<>>
    /\ next_id = 0
    /\ nsend = 0
    /\ ninit = 1
    /\ nsetcb = 0

InitBroker == InitAfterInit /\ queue_size = CONFIG_SYSTEM_EVENT_QUEUE_SIZE

NextBroker ==
    \/ nsend < MaxSend /\ \E k \in SendKinds : \E info \in SendInfos(k, nsend + 1) :
                             EspEventSend(k, info)
    \/ TaskStep

SpecBroker == InitBroker /\ [][NextBroker]_vars

(***************************************************************************)
(* SpecQueue: esp_event_init has registered a callback, in a build with a  *)
(* small queue; producers post enough events to fill the queue and post    *)
(* once more.                                                              *)
(***************************************************************************)
InitQueue ==
    /\ InitAfterInit
    /\ g_event_handler_cb # NULL
    /\ queue_size \in 1..MaxQueueSize

NextQueue ==
    \/ nsend < queue_size + 1 /\ \E k \in ApiKinds : \E info \in SendInfos(k, nsend + 1) :
                                      EspEventSend(k, info)
    \/ TaskStep

SpecQueue == InitQueue /\ [][NextQueue]_vars

(***************************************************************************)
(* SpecHandle: the application calls esp_event_init (any number of times)   *)
(* and esp_event_get_handler, producers post events without a default       *)
(* handler, the event tasks run.                                            *)
(***************************************************************************)
NextHandle ==
    \/ ninit < MaxInit /\ EspEventInit(NextReg, NextReg)
    \/ EspEventGetHandler
    \/ nsend < MaxSend /\ EspEventSend(SYSTEM_EVENT_WIFI_READY, <<nsend + 1>>)
    \/ TaskStep

SpecHandle == Init /\ [][NextHandle]_vars

(***************************************************************************)
(* SpecLive: the application calls esp_event_init (any number of times),    *)
(* producers post events without a default handler, and every event task    *)
(* that can take a step is scheduled in the end.                            *)
(***************************************************************************)
NextLive ==
    \/ ninit < MaxInit /\ EspEventInit(NextReg, NextReg)
    \/ nsend < MaxSend /\ EspEventSend(SYSTEM_EVENT_WIFI_READY, <<nsend + 1>>)
    \/ TaskStep

\* the steps of event task t
TaskOf(t) ==
    \/ TaskReceive(t)
    \/ \E r \in ResultsRead(tasks[t].evt.event_id) : TaskDefaultHandler(t, r)
    \/ TaskPostTest(t)
    \/ \E ret \in {ESP_OK, ESP_FAIL} : TaskPostCall(t, ret)

SpecLive == Init /\ [][NextLive]_vars /\ \A t \in Tasks : WF_vars(TaskOf(t))

(***************************************************************************)
(* SpecSetCb: esp_event_init has returned ESP_OK once; the application      *)
(* calls esp_event_set_cb, with a callback or with NULL, while producers    *)
(* post events and the event task runs.                                     *)
(***************************************************************************)
NextSetCb ==
    \/ nsetcb < MaxSetCb /\ \E c \in {NULL, NextReg} : EspEventSetCbWriteCb(c, NextReg)
    \/ EspEventSetCbWriteCtx
    \/ nsend < MaxSend /\ \E k \in ApiKinds : \E info \in SendInfos(k, nsend + 1) :
                             EspEventSend(k, info)
    \/ TaskStep

SpecSetCb == InitBroker /\ [][NextSetCb]_vars

(***************************************************************************)
(* SpecStatic: a build with the default queue size; esp_event_init has      *)
(* registered a callback; the dhcp client of the station is stopped and the *)
(* station has a static ip info whose words are all non-zero; a producer    *)
(* posts SYSTEM_EVENT_STA_START and then SYSTEM_EVENT_STA_CONNECTED.        *)
(***************************************************************************)
InitStatic ==
    /\ InitAfterInit
    /\ g_event_handler_cb # NULL
    /\ queue_size = CONFIG_SYSTEM_EVENT_QUEUE_SIZE

NextStatic ==
    \/ nsend = 0 /\ EspEventSend(SYSTEM_EVENT_STA_START, <<nsend + 1>>)
    \/ nsend = 1 /\ EspEventSend(SYSTEM_EVENT_STA_CONNECTED, <<nsend + 1>>)
    \/ TaskSteps(TRUE)

SpecStatic == InitStatic /\ [][NextStatic]_vars

(***************************************************************************)
(* SpecFull: a build with a queue of one item; esp_event_init has           *)
(* registered a callback; producers post two events before the event task   *)
(* is scheduled.                                                            *)
(***************************************************************************)
InitFull ==
    /\ InitAfterInit
    /\ g_event_handler_cb # NULL
    /\ queue_size = 1

NextFull ==
    \/ nsend < 2 /\ \E k \in SendKinds : \E info \in SendInfos(k, nsend + 1) :
                       EspEventSend(k, info)
    \/ nsend = 2 /\ TaskStep

SpecFull == InitFull /\ [][NextFull]_vars

(***************************************************************************)
(* History                                                                 *)
(***************************************************************************)
IsCallback(e) == e.stage = "callback"
IsDefault(e) == e.stage = "default"

\* the invocations of the user callback, in order
Callbacks == SelectSeq(log, IsCallback)

\* the queue esp_event_send posts to
CurrentQueue == queues[g_event_handler]

(***************************************************************************)
(* Claims                                                                  *)
(***************************************************************************)

\* C1: the user callback is invoked on the events in the order in which they
\* entered the queue: of two invocations the earlier one is for the event
\* that was enqueued earlier.
C1_CallbackInEnqueueOrder ==
    \A i, j \in 1..Len(Callbacks) :
        i < j => Callbacks[i].evt.id < Callbacks[j].evt.id

\* C2: an esp_event_init call made after one that returned ESP_OK returns an
\* error and leaves the queue handle, the callback, the context and the
\* number of event tasks as they were.
C2_SecondInitFailsNoChange ==
    [][(ninit >= 1 /\ ninit' = ninit + 1)
         => /\ api_ret'.ret = ESP_FAIL
            /\ UNCHANGED <<g_event_handler, g_event_handler_cb, g_event_ctx, ncreated>>]_vars

\* C3: esp_event_send on a queue that holds queue_size events returns
\* ESP_FAIL and leaves the contents of the queue, and their order, unchanged.
C3_SendOnFullQueue ==
    [][(nsend' = nsend + 1 /\ Len(CurrentQueue) = queue_size)
         => /\ api_ret' = [op |-> "esp_event_send", ret |-> ESP_FAIL]
            /\ queues' = queues]_vars

C3_Witness ==
    /\ api_ret = [op |-> "esp_event_send", ret |-> ESP_FAIL]
    /\ \E i \in 1..Len(posted) : posted[i].ret = ESP_FAIL
    /\ Len(CurrentQueue) = queue_size
    /\ queue_size > 1

\* C4: esp_event_send never waits: whatever the queue holds and wherever the
\* event task is, the call returns in the step it is made, ESP_OK if the
\* queue had a free slot and ESP_FAIL otherwise, and leaves no caller
\* suspended on the queue.
C4_SendNeverWaits ==
    [][nsend' = nsend + 1
         => /\ ~send_blocked'
            /\ api_ret'.op = "esp_event_send"
            /\ api_ret'.ret = IF Len(CurrentQueue) < queue_size THEN ESP_OK ELSE ESP_FAIL]_vars

C4_Witness ==
    /\ api_ret = [op |-> "esp_event_send", ret |-> ESP_FAIL]
    /\ \E t \in Tasks : tasks[t].pc = "call"
    /\ ~send_blocked

(***************************************************************************)
(* SpecNull: as SpecBroker with the kinds of Spec, and                     *)
(* esp_system_event_handler may be handed a null pointer.                  *)
(***************************************************************************)
NextNull ==
    \/ nsend < MaxSend /\ \E k \in ApiKinds : \E info \in SendInfos(k, nsend + 1) :
                             EspEventSend(k, info)
    \/ TaskStep
    \/ \E t \in Tasks : EspSystemEventHandlerNull(t)

SpecNull == InitBroker /\ [][NextNull]_vars

(***************************************************************************)
(* SpecAdapter: esp_event_init has registered a callback; producers post   *)
(* the events that have a default handler acting on the adapter; each call *)
(* of the driver and of the tcpip adapter may return non-success.          *)
(***************************************************************************)
AdapterKinds ==
    {SYSTEM_EVENT_STA_START, SYSTEM_EVENT_STA_STOP, SYSTEM_EVENT_STA_CONNECTED,
     SYSTEM_EVENT_STA_DISCONNECTED, SYSTEM_EVENT_AP_START, SYSTEM_EVENT_AP_STOP}

InitAdapterSpec == InitBroker /\ g_event_handler_cb # NULL

NextAdapter ==
    \/ nsend < MaxSend /\ \E k \in AdapterKinds : \E info \in SendInfos(k, nsend + 1) :
                             EspEventSend(k, info)
    \/ \E t \in Tasks : TaskReceive(t)
    \/ \E t \in Tasks : \E r \in ResultsAdapter(tasks[t].evt.event_id) :
            TaskDefaultHandler(t, r)
    \/ \E t \in Tasks : TaskPostTest(t)
    \/ \E t \in Tasks : \E ret \in {ESP_OK, ESP_FAIL} : TaskPostCall(t, ret)

SpecAdapter == InitAdapterSpec /\ [][NextAdapter]_vars

(***************************************************************************)
(* SpecNoCb: the application calls esp_event_init (any number of times)    *)
(* without a callback, producers post events with and without a default    *)
(* handler, and every event task that can take a step is scheduled in the  *)
(* end.  The call of the callback (event.c:181) is not among the steps:    *)
(* esp_wifi_post_event_to_user reaches it with a callback only.            *)
(***************************************************************************)
NoCbKinds == {SYSTEM_EVENT_WIFI_READY, SYSTEM_EVENT_STA_DISCONNECTED}

NextNoCb ==
    \/ ninit < MaxInit /\ EspEventInit(NULL, NextReg)
    \/ nsend < MaxSend /\ \E k \in NoCbKinds : EspEventSend(k, <<nsend + 1>>)
    \/ \E t \in Tasks : TaskReceive(t)
    \/ \E t \in Tasks : \E r \in ResultsRead(tasks[t].evt.event_id) : TaskDefaultHandler(t, r)
    \/ \E t \in Tasks : TaskPostTest(t)

SpecNoCb == Init /\ [][NextNoCb]_vars /\ \A t \in Tasks : WF_vars(TaskOf(t))

(***************************************************************************)
(* Steps of the event task, as the claims speak of them                    *)
(***************************************************************************)
\* task t runs the default stage of its event in this step
HandlerStep(t) == tasks[t].pc = "handler" /\ tasks'[t].pc # "handler"

\* task t moves in this step
Moves(t) == tasks'[t] # tasks[t]

\* the got_ip event the station-associated handler makes of the ip info
GotIpEvent(ipi, id) ==
    [event_id |-> SYSTEM_EVENT_STA_GOT_IP, info |-> GotIpInfo(ipi), id |-> id]

\* task t processes a station-associated event while the dhcp client is
\* stopped (the record tk is the task after its default stage)
StaticCase(tk) ==
    /\ tk.evt.event_id = SYSTEM_EVENT_STA_CONNECTED
    /\ tk.r.status = TCPIP_ADAPTER_DHCP_STOPPED

StaticValid(tk) == StaticCase(tk) /\ StaticIpValid(tk.r.sta_ip)
StaticInvalid(tk) == StaticCase(tk) /\ ~StaticIpValid(tk.r.sta_ip)
HandlerFailed(tk) == tk.dret # ESP_OK

\* the event of the task fails the test of event.c:290: its kind is not below
\* the sentinel, or the table entry at its index holds another kind
OutOfRange(tk) ==
    \/ tk.evt.event_id >= SYSTEM_EVENT_MAX
    \/ g_system_event_handle_table[tk.evt.event_id].event_id # tk.evt.event_id

\* an event in case c is carried from the default stage to the user callback:
\* the default stage hands it to the callback stage, the callback stage, when
\* a callback is registered, calls it with that event, and the task then goes
\* back to xQueueReceive
\* the kinds below SYSTEM_EVENT_MAX whose table row names no handler
NoHandlerKinds ==
    {k \in 0..(SYSTEM_EVENT_MAX - 1) : g_system_event_handle_table[k].event_handle = "NULL"}

NoHandler(tk) == tk.evt.event_id \in NoHandlerKinds

InCase(c, tk) ==
    CASE c = "invalid static ip" -> StaticInvalid(tk)
      [] c = "handler failed" -> HandlerFailed(tk)
      [] c = "out of range" -> OutOfRange(tk)
      [] c = "no handler" -> NoHandler(tk)
      [] c = "static ip posted" -> StaticValid(tk) /\ tk.r.reg_rxcb = ESP_OK
      [] c = "registration failed" ->
            tk.evt.event_id = SYSTEM_EVENT_STA_CONNECTED /\ tk.r.reg_rxcb # ESP_OK

Carried(t, c) ==
    /\ (HandlerStep(t) /\ InCase(c, tasks'[t]))
          => tasks'[t].pc = "post" /\ tasks'[t].evt = tasks[t].evt
    /\ (tasks[t].pc = "post" /\ InCase(c, tasks[t]) /\ Moves(t) /\ g_event_handler_cb # NULL)
          => /\ tasks'[t].pc = "call"
             /\ tasks'[t].evt = tasks[t].evt
             /\ tasks'[t].r = tasks[t].r
             /\ tasks'[t].dret = tasks[t].dret
    /\ (tasks[t].pc = "call" /\ InCase(c, tasks[t]) /\ Moves(t))
          => /\ Len(log') = Len(log) + 1
             /\ log'[Len(log')].stage = "callback"
             /\ log'[Len(log')].evt = tasks[t].evt
             /\ tasks'[t].pc = "recv"

NoDoubleDelivery ==
    \A i, j \in 1..Len(Callbacks) : i # j => Callbacks[i].evt.id # Callbacks[j].evt.id

C6_SyntheticAfterEarlier ==
    \A j \in 1..Len(log) :
        (log[j].stage = "default" /\ posted[log[j].evt.id].by = "handler")
           => \A x \in 1..(log[j].evt.id - 1) :
                 posted[x].ret = ESP_OK
                    => \E i \in 1..(j - 1) :
                          /\ log[i].evt.id = x
                          /\ log[i].stage \in {"callback", "no_callback"}

\* C7: when the default stage runs for a station-associated event while the
\* dhcp client is stopped and one of ip, netmask, gw is zero, the handler
\* posts nothing and leaves the queue as it is, and the event is carried on
\* to the user callback.
C7_InvalidStaticPostsNothing ==
    [][\A t \in Tasks :
          /\ (HandlerStep(t) /\ StaticInvalid(tasks'[t]))
                => queues' = queues /\ posted' = posted /\ next_id' = next_id
          /\ Carried(t, "invalid static ip")]_vars

C7_Witness ==
    \E t \in Tasks :
        /\ tasks[t].pc = "call"
        /\ StaticInvalid(tasks[t])
        /\ tasks[t].r.reg_rxcb = ESP_OK
        /\ tasks[t].r.sta_ip.ip # 0
        /\ CurrentQueue # <<>>

\* C10: when a default handler returns a code other than ESP_OK, the event is
\* carried on to the user callback all the same, and the task goes back to
\* xQueueReceive, where it takes the next event of the queue.
C10_FailedHandlerStillDelivers ==
    /\ [][\A t \in Tasks : Carried(t, "handler failed")]_vars
    /\ [](\A t \in Tasks :
            (tasks[t].pc = "recv" /\ tasks[t].q = NULL /\ CurrentQueue # <<>>)
               => ENABLED TaskReceive(t))

\* the handler of an event failed, the callback was called for it, and the
\* task has gone on to the next event
C10_Witness ==
    \E i, j, k \in 1..Len(log) :
        /\ i < j /\ j < k
        /\ log[i].stage = "default" /\ log[i].ret # ESP_OK
        /\ log[j].stage = "callback" /\ log[j].evt = log[i].evt
        /\ log[k].stage = "default" /\ log[k].evt.id # log[i].evt.id

\* every posted event has been processed and the event task waits
Drained ==
    /\ CurrentQueue = <<>>
    /\ \A t \in Tasks : tasks[t].pc \in {"none", "recv"}

CallbackKinds == [i \in 1..Len(Callbacks) |-> Callbacks[i].evt.event_id]

IsPrefix(s, t) == Len(s) <= Len(t) /\ \A i \in 1..Len(s) : s[i] = t[i]

StaticDelivery ==
    <<SYSTEM_EVENT_STA_START, SYSTEM_EVENT_STA_CONNECTED, SYSTEM_EVENT_STA_GOT_IP>>

\* the callback never sees anything but sta_start, sta_connected, got_ip in
\* this order, and a got_ip it sees is the event the handler posted
StaticDeliveryPrefix ==
    /\ IsPrefix(CallbackKinds, StaticDelivery)
    /\ \A i \in 1..Len(Callbacks) :
          Callbacks[i].evt.event_id = SYSTEM_EVENT_STA_GOT_IP
             => /\ posted[Callbacks[i].evt.id].by = "handler"
                /\ posted[Callbacks[i].evt.id].evt = Callbacks[i].evt

\* the event the sta_connected handler posts carries the ip, netmask and gw
\* tcpip_adapter_get_ip_info stored
PostedCarriesConfig ==
    \A t \in Tasks :
        (HandlerStep(t) /\ StaticValid(tasks'[t]) /\ posted' # posted)
           => /\ posted'[Len(posted')].evt.event_id = SYSTEM_EVENT_STA_GOT_IP
              /\ posted'[Len(posted')].evt.info = <<tasks'[t].r.sta_ip.ip,
                                                    tasks'[t].r.sta_ip.netmask,
                                                    tasks'[t].r.sta_ip.gw>>

\* C8: with the default queue size, sta_start and then sta_connected posted
\* while the dhcp client is stopped and the static ip info is all non-zero:
\* once everything is processed the callback has been called exactly three
\* times, for sta_start, sta_connected and got_ip with that ip info, in this
\* order, and it is never called a fourth time.
C8_ThreeCallbacks ==
    /\ []StaticDeliveryPrefix
    /\ [][PostedCarriesConfig]_vars
    /\ []((nsend = 2 /\ Drained) => CallbackKinds = StaticDelivery)

\* C8 as amended: the callback is called for sta_start and sta_connected in
\* this order; it is called a third time, for got_ip with that ip info,
\* exactly when esp_wifi_reg_rxcb succeeded in the sta_connected handler;
\* there is never a fourth call.
C8_ThreeCallbacksWhenRegistered ==
    /\ []StaticDeliveryPrefix
    /\ [][PostedCarriesConfig]_vars
    /\ []((nsend = 2 /\ Drained)
            => \E j \in 1..Len(log) :
                  /\ log[j].stage = "default"
                  /\ log[j].evt.event_id = SYSTEM_EVENT_STA_CONNECTED
                  /\ CallbackKinds = IF log[j].ret = ESP_OK
                                     THEN StaticDelivery
                                     ELSE SubSeq(StaticDelivery, 1, 2))

C8_Witness ==
    /\ nsend = 2
    /\ Drained
    /\ Len(Callbacks) = 3
    /\ Callbacks[3].evt.info = <<5, 3, 1>>

\* C9: with a queue of one item and two posts before the event task runs,
\* the first esp_event_send returns ESP_OK and the second ESP_FAIL; the
\* second event is never delivered, the first callback call carries the
\* first event as posted, and it has been made once everything is processed.
C9_SecondDroppedFirstDelivered ==
    /\ Len(posted) >= 1 => posted[1].ret = ESP_OK
    /\ Len(posted) >= 2 => posted[2].ret = ESP_FAIL
    /\ \A j \in 1..Len(log) : log[j].evt.id # 2
    /\ Callbacks # <<>> => Callbacks[1].evt = posted[1].evt
    /\ (nsend = 2 /\ Drained) => Callbacks # <<>>

C9_Witness ==
    /\ nsend = 2
    /\ Drained
    /\ posted[2].ret = ESP_FAIL
    /\ Callbacks # <<>>
    /\ Callbacks[1].evt.id = 1
    /\ Callbacks[1].evt.event_id = SYSTEM_EVENT_STA_DISCONNECTED

\* C11: when the default stage runs for an event whose kind is not below
\* SYSTEM_EVENT_MAX, or is not the kind the table holds at that index, no
\* default handler runs (the adapter is left alone, nothing is posted, the
\* queues are unchanged), and the event is carried on to the user callback.
C11_OutOfRangeSkipsDefault ==
    [][\A t \in Tasks :
          /\ (HandlerStep(t) /\ OutOfRange(tasks[t]))
                => /\ adapter' = adapter
                   /\ queues' = queues
                   /\ posted' = posted
                   /\ log'[Len(log')].handle = "mismatch"
          /\ Carried(t, "out of range")]_vars

\* the callback has been called for an event of kind SYSTEM_EVENT_MAX and for
\* one of a kind past it
C11_Witness ==
    \E i, j \in 1..Len(Callbacks) :
        /\ Callbacks[i].evt.event_id = SYSTEM_EVENT_MAX
        /\ Callbacks[j].evt.event_id > SYSTEM_EVENT_MAX

\* C12: the user callback is called for an event only after the default stage
\* of that same event has finished, in the same task, and the default stage
\* of an event never runs once its callback has been called.
C12_DefaultBeforeCallback ==
    \A j \in 1..Len(log) :
        log[j].stage \in {"callback", "no_callback"}
           => /\ \E i \in 1..(j - 1) :
                    /\ log[i].stage = "default"
                    /\ log[i].evt = log[j].evt
                    /\ log[i].task = log[j].task
              /\ \A i \in (j + 1)..Len(log) :
                    ~(log[i].stage = "default" /\ log[i].evt.id = log[j].evt.id)

\* a callback call follows the default handler of its event, here one that
\* posted an event, and the posted event went the same way
C12_Witness ==
    \E i, j, k, l \in 1..Len(log) :
        /\ i < j /\ j < k /\ k < l
        /\ log[i].stage = "default" /\ log[i].sent
        /\ log[j].stage = "callback" /\ log[j].evt = log[i].evt
        /\ log[k].stage = "default" /\ log[k].evt.event_id = SYSTEM_EVENT_STA_GOT_IP
        /\ log[l].stage = "callback" /\ log[l].evt = log[k].evt

\* the queue task t takes its next event from
ReceiveQueue(t) == queues[IF tasks[t].q # NULL THEN tasks[t].q ELSE g_event_handler]

\* every event task waits in xQueueReceive on an empty queue
Quiescent ==
    \A t \in Tasks :
        \/ tasks[t].pc = "none"
        \/ tasks[t].pc = "recv" /\ ReceiveQueue(t) = <<>>

\* C13: with a callback registered, the callback is called at most once for an
\* event; an event the callback was called for is in no queue any more; and
\* once every event task waits on an empty queue, the callback has been
\* called for every event whose esp_event_send returned ESP_OK.
C13_DeliveredExactlyOnce ==
    g_event_handler_cb # NULL
       => /\ \A i, j \in 1..Len(Callbacks) :
                i # j => Callbacks[i].evt.id # Callbacks[j].evt.id
          /\ \A i \in 1..Len(Callbacks) :
                \A h \in Handles : \A n \in 1..Len(queues[h]) :
                    queues[h][n].id # Callbacks[i].evt.id
          /\ Quiescent
                => \A x \in 1..Len(posted) :
                      posted[x].ret = ESP_OK
                         => \E i \in 1..Len(Callbacks) : Callbacks[i].evt.id = x

\* C14: esp_event_set_cb hands back the callback and the context that were
\* registered when it was called.
C14_SetCbReturnsPreviousPair ==
    [][(setcb.pc = "write_ctx" /\ setcb'.pc = "idle")
          => api_ret' = [op |-> "esp_event_set_cb",
                         ret |-> [cb |-> setcb.old_cb, ctx |-> g_event_ctx]]]_vars

\* C15: the callback is called only with the context registered in the same
\* esp_event_init or esp_event_set_cb call (a registration's callback and
\* context bear the number of the call).
C15_CallbackWithItsContext ==
    \A i \in 1..Len(Callbacks) : Callbacks[i].cb = Callbacks[i].ctx

\* the event tasks created so far, and those that hold an event
Created == {t \in Tasks : tasks[t].pc # "none"}
Processing == {t \in Tasks : tasks[t].pc \in {"handler", "post", "call"}}

\* C17: at most one event task exists, and at most one event is in its
\* default stage or callback stage at a time.
C17_SingleConsumer ==
    /\ Cardinality(Created) <= 1
    /\ Cardinality(Processing) <= 1

\* event x has been through the default stage and the callback stage
Processed(x) ==
    \E j \in 1..Len(log) :
        log[j].evt.id = x /\ log[j].stage \in {"callback", "no_callback"}

\* C16: an event task that has finished an event goes back to xQueueReceive,
\* and, every event task being scheduled fairly, every event whose
\* esp_event_send returned ESP_OK is processed in the end.
C16_EveryEventProcessed ==
    /\ [][\A t \in Tasks :
            (tasks[t].pc \in {"post", "call"} /\ tasks'[t].pc \notin {"post", "call"})
               => tasks'[t].pc = "recv"]_vars
    /\ \A x \in 1..MaxSend :
          (Len(posted) >= x /\ posted[x].ret = ESP_OK) ~> Processed(x)

\* C20: once esp_event_init has returned ESP_OK, the handle
\* esp_event_get_handler returns never changes, it is the handle
\* g_event_handler holds, and every event task that waits in xQueueReceive
\* waits on it.
C20_OneHandle ==
    /\ [][g_event_handler # NULL => g_event_handler' = g_event_handler]_vars
    /\ [](api_ret.op = "esp_event_get_handler" => api_ret.ret = g_event_handler)
    /\ [](\A t \in Tasks : tasks[t].q # NULL => tasks[t].q = g_event_handler)

\* C18: an event whose esp_event_send returned ESP_FAIL is in no queue and
\* never reaches a default handler or the user callback; nothing posts it
\* again.
C18_DroppedEventNeverDelivered ==
    \A x \in 1..Len(posted) :
        posted[x].ret = ESP_FAIL
           => /\ \A j \in 1..Len(log) : log[j].evt.id # x
              /\ \A t \in Tasks : tasks[t].evt.id # x
              /\ \A h \in Handles : \A n \in 1..Len(queues[h]) : queues[h][n].id # x
              /\ \A y \in 1..Len(posted) : y # x => posted[y].evt # posted[x].evt

\* an event was dropped, and the events before and after it were delivered
C18_Witness ==
    /\ Quiescent
    /\ \E x, y, z \in 1..Len(posted) :
          /\ x < y /\ y < z
          /\ posted[y].ret = ESP_FAIL
          /\ Processed(x) /\ Processed(z)

\* C19: every queue holds at most queue_size events, and queue_size never
\* changes.
C19_QueueWithinCapacity ==
    /\ [](\A h \in Handles : Len(queues[h]) <= queue_size)
    /\ [][queue_size' = queue_size]_vars

\* the queue is full, with more than one event, and the post of a default
\* handler has failed on it
C19_Witness ==
    /\ queue_size > 1
    /\ Len(CurrentQueue) = queue_size
    /\ \E x \in 1..Len(posted) : posted[x].by = "handler" /\ posted[x].ret = ESP_FAIL

(***************************************************************************)
(* Self-injection                                                          *)
(***************************************************************************)
IsHandlerPosted(p) == p.by = "handler"
IsProducerPosted(p) == p.by = "producer"

\* the default stages that ran, and among them those of the events the
\* producers posted
Defaults == SelectSeq(log, IsDefault)
IsProducerDefault(e) == IsDefault(e) /\ posted[e.evt.id].by = "producer"

\* C27: the default stage of a got_ip event posts nothing; a default stage
\* that posts is the one of a sta_connected event a producer posted; the
\* handlers never post more events than default stages ran for the events of
\* the producers, and the default stage never runs more than twice as often
\* as esp_event_send was called from outside.
C27_NoSelfFeeding ==
    /\ [][\A t \in Tasks :
            (HandlerStep(t) /\ tasks[t].evt.event_id = SYSTEM_EVENT_STA_GOT_IP)
               => queues' = queues /\ posted' = posted /\ next_id' = next_id]_vars
    /\ [](\A j \in 1..Len(log) :
            (log[j].stage = "default" /\ log[j].sent)
               => /\ log[j].evt.event_id = SYSTEM_EVENT_STA_CONNECTED
                  /\ log[j].handle = "sta_connected"
                  /\ posted[log[j].evt.id].by = "producer")
    /\ [](Len(SelectSeq(posted, IsHandlerPosted)) <= Len(SelectSeq(log, IsProducerDefault)))
    /\ [](Len(SelectSeq(posted, IsProducerPosted)) = nsend)
    /\ [](Len(Defaults) <= 2 * nsend)

\* two sta_connected events were posted from outside, each made its handler
\* post a got_ip event, and the default stage has run for all four
C27_Witness ==
    /\ nsend = 2
    /\ Len(Defaults) = 2 * nsend
    /\ \E j \in 1..Len(log) :
          /\ log[j].stage = "default"
          /\ log[j].evt.event_id = SYSTEM_EVENT_STA_GOT_IP
          /\ posted[log[j].evt.id].by = "handler"
          /\ log[j].ret = ESP_OK
          /\ ~log[j].sent

C29_NoHandlerChangesNothing ==
    /\ [][\A t \in Tasks :
            /\ (HandlerStep(t)
                  /\ tasks[t].evt.event_id \in
                        {SYSTEM_EVENT_WIFI_READY, SYSTEM_EVENT_SCAN_DONE,
                         SYSTEM_EVENT_STA_AUTHMODE_CHANGE, SYSTEM_EVENT_AP_STACONNECTED,
                         SYSTEM_EVENT_AP_STADISCONNECTED, SYSTEM_EVENT_AP_PROBEREQRECVED})
                  => /\ NoHandler(tasks[t])
                     /\ adapter' = adapter
                     /\ queues' = queues
                     /\ posted' = posted
                     /\ g_event_handler_cb' = g_event_handler_cb
                     /\ g_event_ctx' = g_event_ctx
                     /\ log'[Len(log')].handle = "NULL"
                     /\ log'[Len(log')].ret = ESP_OK
            /\ Carried(t, "no handler")]_vars
    /\ [](\A j \in 1..Len(log) :
            (log[j].stage = "callback" /\ log[j].evt.event_id \in NoHandlerKinds)
               => log[j].evt = posted[log[j].evt.id].evt)

\* the callback has been called for a wifi_ready event and for an
\* ap_probereqrecved event
C29_Witness ==
    \E i, j \in 1..Len(Callbacks) :
        /\ Callbacks[i].evt.event_id = SYSTEM_EVENT_WIFI_READY
        /\ Callbacks[j].evt.event_id = SYSTEM_EVENT_AP_PROBEREQRECVED
        /\ Callbacks[j].evt = posted[Callbacks[j].evt.id].evt

(***************************************************************************)
(* The event the sta_connected handler posts                               *)
(***************************************************************************)
\* C30: whenever a default handler posts an event, the event is a got_ip
\* event whose info holds the ip, the netmask and the gw that
\* tcpip_adapter_get_ip_info stored for the station in that same run of the
\* handler; and whenever the user callback is called for an event a handler
\* posted, it receives that event as it was posted.
C30_SyntheticCarriesConfigRead ==
    /\ [][\A t \in Tasks :
            (HandlerStep(t) /\ Len(posted') > Len(posted))
               => /\ Len(posted') = Len(posted) + 1
                  /\ tasks[t].evt.event_id = SYSTEM_EVENT_STA_CONNECTED
                  /\ posted'[Len(posted')].by = "handler"
                  /\ posted'[Len(posted')].evt.event_id = SYSTEM_EVENT_STA_GOT_IP
                  /\ posted'[Len(posted')].evt.info[1] = tasks'[t].r.sta_ip.ip
                  /\ posted'[Len(posted')].evt.info[2] = tasks'[t].r.sta_ip.netmask
                  /\ posted'[Len(posted')].evt.info[3] = tasks'[t].r.sta_ip.gw
                  /\ Len(posted'[Len(posted')].evt.info) = 3]_vars
    /\ [](\A j \in 1..Len(log) :
            (log[j].stage = "callback" /\ posted[log[j].evt.id].by = "handler")
               => log[j].evt = posted[log[j].evt.id].evt)

\* the callback has received a got_ip event that a handler posted after
\* reading the configuration 5, 3, 1, and one posted after reading 1, 1, 1
C30_Witness ==
    \E i, j \in 1..Len(Callbacks) :
        /\ posted[Callbacks[i].evt.id].by = "handler"
        /\ Callbacks[i].evt.info = <<5, 3, 1>>
        /\ posted[Callbacks[j].evt.id].by = "handler"
        /\ Callbacks[j].evt.info = <<1, 1, 1>>

(***************************************************************************)
(* The null event                                                          *)
(***************************************************************************)
\* task t is handed a null event in this step
NullStep(t) ==
    /\ tasks[t].pc = "handler"
    /\ Len(log') = Len(log) + 1
    /\ log'[Len(log')].stage = "null"
    /\ log'[Len(log')].task = t

\* C21: when esp_system_event_handler is handed a null event, no default
\* handler runs (the adapter, the queues and the posted events are left as
\* they are), the user callback is not called, ESP_FAIL is returned, and the
\* task is back at xQueueReceive, where it takes the next event of the queue.
C21_NullEventDropped ==
    /\ [][\A t \in Tasks :
            NullStep(t)
               => /\ adapter' = adapter
                  /\ queues' = queues
                  /\ posted' = posted
                  /\ tasks'[t].ret = ESP_FAIL
                  /\ tasks'[t].pc = "recv"]_vars
    /\ [](\A j \in 1..Len(log) :
            log[j].stage \in {"default", "callback", "no_callback"} => log[j].evt # NoEvent)
    /\ [](\A t \in Tasks :
            (tasks[t].pc = "recv" /\ tasks[t].q = NULL /\ CurrentQueue # <<>>)
               => ENABLED TaskReceive(t))

\* a null event was dropped while another event waited in the queue, and the
\* callback has since been called for that event
C21_Witness ==
    \E i, j \in 1..Len(log) :
        /\ i < j
        /\ log[i].stage = "null"
        /\ log[j].stage = "callback"
        /\ log[j].task = log[i].task
        /\ \A k \in 1..Len(log) : log[k].stage = "default" => log[k].evt.id = log[j].evt.id

(***************************************************************************)
(* The default handlers and the adapter                                    *)
(***************************************************************************)
\* the default handler of a k event runs in this step of task t and
\* returns ESP_OK
HandlerSucceeds(t, k) ==
    /\ HandlerStep(t)
    /\ tasks[t].evt.event_id = k
    /\ tasks'[t].dret = ESP_OK

\* C22: when the default handler of a sta_start event (of an ap_start event)
\* returns ESP_OK, the mac and the cached ip info of the station (of the
\* access point) have been fetched, an inbound-packet callback is registered
\* for it with the driver, and the adapter is started.
C22_AdapterStart ==
    [][\A t \in Tasks :
          /\ HandlerSucceeds(t, SYSTEM_EVENT_STA_START)
                => /\ adapter'.mac[WIFI_IF_STA]
                   /\ adapter'.ip_read[WIFI_IF_STA]
                   /\ adapter'.rxcb[WIFI_IF_STA]
                   /\ adapter'.started[WIFI_IF_STA]
          /\ HandlerSucceeds(t, SYSTEM_EVENT_AP_START)
                => /\ adapter'.mac[WIFI_IF_AP]
                   /\ adapter'.ip_read[WIFI_IF_AP]
                   /\ adapter'.rxcb[WIFI_IF_AP]
                   /\ adapter'.started[WIFI_IF_AP]]_vars

\* C23: when the default handler of a sta_stop event (of an ap_stop event)
\* returns ESP_OK, no inbound-packet callback is registered for the station
\* (for the access point) and the adapter is not started.
C23_AdapterStop ==
    [][\A t \in Tasks :
          /\ HandlerSucceeds(t, SYSTEM_EVENT_STA_STOP)
                => ~adapter'.rxcb[WIFI_IF_STA] /\ ~adapter'.started[WIFI_IF_STA]
          /\ HandlerSucceeds(t, SYSTEM_EVENT_AP_STOP)
                => ~adapter'.rxcb[WIFI_IF_AP] /\ ~adapter'.started[WIFI_IF_AP]]_vars

\* the default handler that ran in the step leading to task record tk made a
\* call that returned non-success: a driver call under WIFI_API_CALL_CHECK,
\* or the tcpip_adapter call named by tcpip_fail when the handler reached it
DriverCallFailed(tk) ==
    LET k == tk.evt.event_id
    IN  \/ k \in {SYSTEM_EVENT_STA_CONNECTED, SYSTEM_EVENT_STA_DISCONNECTED,
                   SYSTEM_EVENT_AP_START, SYSTEM_EVENT_AP_STOP}
             /\ tk.r.reg_rxcb # ESP_OK
        \/ k = SYSTEM_EVENT_STA_START /\ tk.r.get_mac # ESP_OK
        \/ k = SYSTEM_EVENT_AP_START /\ tk.r.reg_rxcb = ESP_OK /\ tk.r.get_mac # ESP_OK

TcpipCallFailed(tk) ==
    LET k == tk.evt.event_id
        f == tk.r.tcpip_fail
    IN  \/ k = SYSTEM_EVENT_STA_START /\ tk.r.get_mac = ESP_OK /\ f = "tcpip_adapter_start"
        \/ k = SYSTEM_EVENT_AP_START /\ tk.r.reg_rxcb = ESP_OK /\ tk.r.get_mac = ESP_OK
             /\ f = "tcpip_adapter_start"
        \/ k = SYSTEM_EVENT_STA_STOP /\ f = "tcpip_adapter_stop"
        \/ k = SYSTEM_EVENT_AP_STOP /\ tk.r.reg_rxcb = ESP_OK /\ f = "tcpip_adapter_stop"
        \/ k = SYSTEM_EVENT_STA_CONNECTED /\ tk.r.reg_rxcb = ESP_OK /\ f = "tcpip_adapter_up"
        \/ k = SYSTEM_EVENT_STA_CONNECTED /\ tk.r.reg_rxcb = ESP_OK
             /\ tk.r.status = TCPIP_ADAPTER_DHCP_INIT /\ f = "tcpip_adapter_dhcpc_start"
        \/ k = SYSTEM_EVENT_STA_DISCONNECTED /\ f = "tcpip_adapter_down"

\* C24: whenever a call a default handler makes returns non-success, the
\* handler returns a code other than ESP_OK; and when the call is
\* tcpip_adapter_up or tcpip_adapter_down, the calls that follow it in the
\* handler (tcpip_adapter_dhcpc_start, esp_event_send, esp_wifi_reg_rxcb) are
\* not made.
C24_FailureStopsHandler ==
    [][\A t \in Tasks :
          (HandlerStep(t) /\ (DriverCallFailed(tasks'[t]) \/ TcpipCallFailed(tasks'[t])))
             => /\ tasks'[t].dret # ESP_OK
                /\ tasks'[t].r.tcpip_fail \in {"tcpip_adapter_up", "tcpip_adapter_down"}
                      => /\ adapter'.dhcpc_started = adapter.dhcpc_started
                         /\ adapter'.rxcb = adapter.rxcb
                         /\ posted' = posted]_vars

\* C24 for the driver calls alone: a default handler returns the code of the
\* first esp_wifi_reg_rxcb or esp_wifi_get_mac call that failed
DriverFailureReported ==
    [][\A t \in Tasks :
          (HandlerStep(t) /\ DriverCallFailed(tasks'[t])) => tasks'[t].dret = ESP_ERR]_vars

\* C25: when the default stage runs for a sta_connected event and the dhcp
\* client's status is TCPIP_ADAPTER_DHCP_INIT, the handler registers the
\* station's inbound-packet callback, brings the station link up and starts
\* the dhcp client, and posts nothing.
C25_ConnectedStartsDhcpc ==
    [][\A t \in Tasks :
          (HandlerStep(t) /\ tasks[t].evt.event_id = SYSTEM_EVENT_STA_CONNECTED
             /\ tasks'[t].r.status = TCPIP_ADAPTER_DHCP_INIT)
             => /\ adapter'.rxcb[WIFI_IF_STA]
                /\ adapter'.sta_up
                /\ adapter'.dhcpc_started
                /\ posted' = posted
                /\ queues' = queues]_vars

\* C25 as amended: in that case, when esp_wifi_reg_rxcb fails the handler
\* returns its code and leaves the adapter as it is; when it succeeds the
\* callback is registered, tcpip_adapter_up and tcpip_adapter_dhcpc_start are
\* both called, whatever the first returned, the link is up unless
\* tcpip_adapter_up failed and the dhcp client is started unless
\* tcpip_adapter_dhcpc_start failed, and the handler returns ESP_OK; in
\* either case nothing is posted.
C25_ConnectedStartsDhcpcWhenRegistered ==
    [][\A t \in Tasks :
          (HandlerStep(t) /\ tasks[t].evt.event_id = SYSTEM_EVENT_STA_CONNECTED
             /\ tasks'[t].r.status = TCPIP_ADAPTER_DHCP_INIT)
             => /\ posted' = posted
                /\ queues' = queues
                /\ IF tasks'[t].r.reg_rxcb = ESP_OK
                   THEN /\ tasks'[t].dret = ESP_OK
                        /\ adapter'.rxcb[WIFI_IF_STA]
                        /\ adapter'.sta_up =
                              IF tasks'[t].r.tcpip_fail = "tcpip_adapter_up"
                              THEN adapter.sta_up ELSE TRUE
                        /\ adapter'.dhcpc_started =
                              IF tasks'[t].r.tcpip_fail = "tcpip_adapter_dhcpc_start"
                              THEN adapter.dhcpc_started ELSE TRUE
                   ELSE /\ tasks'[t].dret = tasks'[t].r.reg_rxcb
                        /\ adapter' = adapter]_vars

\* the sta_connected handler has started the dhcp client with the link up,
\* and the callback has been called for the event; nothing was posted by a
\* handler
C25_Witness ==
    /\ adapter.rxcb[WIFI_IF_STA] /\ adapter.sta_up /\ adapter.dhcpc_started
    /\ \A x \in 1..Len(posted) : posted[x].by = "producer"
    /\ \E i, j \in 1..Len(log) :
          /\ i < j
          /\ log[i].stage = "default" /\ log[i].handle = "sta_connected"
          /\ log[i].ret = ESP_OK
          /\ log[j].stage = "callback" /\ log[j].evt = log[i].evt

\* C26: when the default handler of a sta_disconnected event returns ESP_OK,
\* the station link is down and no inbound-packet callback is registered
\* for the station; the handler posts nothing.
C26_DisconnectedLinkDown ==
    [][\A t \in Tasks :
          /\ HandlerSucceeds(t, SYSTEM_EVENT_STA_DISCONNECTED)
                => ~adapter'.sta_up /\ ~adapter'.rxcb[WIFI_IF_STA]
          /\ (HandlerStep(t) /\ tasks[t].evt.event_id = SYSTEM_EVENT_STA_DISCONNECTED)
                => posted' = posted /\ queues' = queues]_vars

(***************************************************************************)
(* No callback registered                                                  *)
(***************************************************************************)
\* event x has been through its default stage and then discarded by
\* esp_wifi_post_event_to_user, which found no callback
Discarded(x) ==
    \E i, j \in 1..Len(log) :
        /\ i < j
        /\ log[i].evt.id = x /\ log[i].stage = "default"
        /\ log[j].evt.id = x /\ log[j].stage = "no_callback"

\* C31: with no callback registered, the callback stage calls nothing and
\* returns ESP_OK to the event task, and, every event task being scheduled
\* fairly, every event whose esp_event_send returned ESP_OK is dequeued, run
\* through its default stage and discarded in the end.
C31_NoCallbackStillDrains ==
    /\ [](g_event_handler_cb = NULL)
    /\ [](\A j \in 1..Len(log) : log[j].stage # "callback")
    /\ [](\A t \in Tasks : tasks[t].ret = ESP_OK /\ tasks[t].pc # "call")
    /\ \A x \in 1..MaxSend :
          (Len(posted) >= x /\ posted[x].ret = ESP_OK) ~> Discarded(x)

(***************************************************************************)
(* The handler's esp_event_send and the queue's capacity                   *)
(***************************************************************************)
\* the queue esp_event_send would use has a free slot
Room == Len(CurrentQueue) < queue_size

\* task t takes a sta_connected event off a queue in this step
Dequeues(t) ==
    /\ tasks[t].pc = "recv"
    /\ tasks'[t].pc = "handler"
    /\ tasks'[t].evt.event_id = SYSTEM_EVENT_STA_CONNECTED

\* the default handler of task t calls esp_event_send in this step, and the
\* call returns ret
HandlerSends(t, ret) ==
    /\ HandlerStep(t)
    /\ Len(posted') = Len(posted) + 1
    /\ posted'[Len(posted')].by = "handler"
    /\ posted'[Len(posted')].ret = ret

\* C32: the dequeue of a sta_connected event frees a slot of the queue; while the task is
\* between the dequeue and its handler's esp_event_send, the queue loses the
\* free slot only by an esp_event_send call of a producer that adds an event;
\* the handler's esp_event_send fails exactly when the queue has no free slot
\* at that moment.  When it fails, nothing is added to the queue, the handler
\* returns ESP_OK, the got_ip event is never processed, and the sta_connected
\* event is carried on to the user callback.
C32_SyntheticFailsOnlyWhenRefilled ==
    /\ [][\A t \in Tasks :
            /\ Dequeues(t) => Room'
            /\ (tasks[t].pc = "handler" /\ ~Moves(t) /\ Room /\ ~Room')
                  => /\ nsend' = nsend + 1
                     /\ posted'[Len(posted')].by = "producer"
                     /\ posted'[Len(posted')].ret = ESP_OK
            /\ HandlerSends(t, ESP_OK) => Room
            /\ HandlerSends(t, ESP_FAIL)
                  => /\ ~Room
                     /\ queues' = queues
                     /\ tasks'[t].dret = ESP_OK
            /\ Carried(t, "static ip posted")]_vars
    /\ [](\A j \in 1..Len(log) : posted[log[j].evt.id].ret = ESP_OK)

(***************************************************************************)
(* The sta_connected handler, case by case                                 *)
(***************************************************************************)
\* task t runs the default stage of a sta_connected event in this step
ConnectedStep(t) ==
    HandlerStep(t) /\ tasks[t].evt.event_id = SYSTEM_EVENT_STA_CONNECTED

\* what the handler does is the same whatever ip info the adapter holds
IgnoresIpInfo(a, event, r) ==
    \A i \in IpInfos :
        system_event_sta_connected_handle_default(a, event, [r EXCEPT !.sta_ip = i])
           = system_event_sta_connected_handle_default(a, event, r)

\* C33: when the default stage runs for a sta_connected event and the dhcp
\* client's status is TCPIP_ADAPTER_DHCP_STARTED, the handler does not start
\* the dhcp client, does nothing that depends on the cached ip info and posts
\* nothing; of the adapter it changes at most the station's inbound-packet
\* callback and link, and it registers the callback and brings the link up
\* when esp_wifi_reg_rxcb and tcpip_adapter_up succeed.
C33_StartedOnlyRegistersAndLinksUp ==
    [][\A t \in Tasks :
          (ConnectedStep(t) /\ tasks'[t].r.status = TCPIP_ADAPTER_DHCP_STARTED)
             => /\ posted' = posted
                /\ queues' = queues
                /\ next_id' = next_id
                /\ adapter'.dhcpc_started = adapter.dhcpc_started
                /\ adapter' = [adapter EXCEPT !.rxcb[WIFI_IF_STA] = adapter'.rxcb[WIFI_IF_STA],
                                              !.sta_up = adapter'.sta_up]
                /\ IgnoresIpInfo(adapter, tasks[t].evt, tasks'[t].r)
                /\ tasks'[t].r.reg_rxcb = ESP_OK
                      => /\ adapter'.rxcb[WIFI_IF_STA]
                         /\ tasks'[t].r.tcpip_fail # "tcpip_adapter_up" => adapter'.sta_up]_vars

\* the handler of a sta_connected event has run with the dhcp client
\* started: the callback is registered and the link is up, the dhcp client
\* was left alone and nothing was posted
C33_Witness ==
    /\ \E t \in Tasks :
          /\ tasks[t].pc = "call"
          /\ tasks[t].evt.event_id = SYSTEM_EVENT_STA_CONNECTED
          /\ tasks[t].r.status = TCPIP_ADAPTER_DHCP_STARTED
          /\ tasks[t].dret = ESP_OK
    /\ adapter.rxcb[WIFI_IF_STA] /\ adapter.sta_up /\ ~adapter.dhcpc_started
    /\ \A x \in 1..Len(posted) : posted[x].by = "producer"

\* what the handler does is the same whatever the dhcp client's status and
\* the ip info of the adapter are
IgnoresStatusAndIpInfo(a, event, r) ==
    \A st \in DhcpStatus, i \in IpInfos :
        system_event_sta_connected_handle_default(a, event, [r EXCEPT !.status = st, !.sta_ip = i])
           = system_event_sta_connected_handle_default(a, event, r)

\* C34: when esp_wifi_reg_rxcb fails in the default stage of a sta_connected
\* event, the handler returns its code at once: the adapter is left as it is
\* (the link is not brought up, the dhcp client is not started), nothing the
\* handler does depends on the dhcp client's status or on the cached ip
\* info, and nothing is posted, whatever the status and the ip info; the
\* sta_connected event is carried on to the user callback.
C34_RegistrationFailureStopsHandler ==
    [][\A t \in Tasks :
          /\ (ConnectedStep(t) /\ tasks'[t].r.reg_rxcb # ESP_OK)
                => /\ adapter' = adapter
                   /\ posted' = posted
                   /\ queues' = queues
                   /\ next_id' = next_id
                   /\ tasks'[t].dret = tasks'[t].r.reg_rxcb
                   /\ IgnoresStatusAndIpInfo(adapter, tasks[t].evt, tasks'[t].r)
          /\ Carried(t, "registration failed")]_vars

\* esp_wifi_reg_rxcb has failed for a sta_connected event while the dhcp
\* client was stopped and the ip info all non-zero: the link is down,
\* nothing was posted, and the callback is about to be called for the event
C34_Witness ==
    /\ \E t \in Tasks :
          /\ tasks[t].pc = "call"
          /\ tasks[t].evt.event_id = SYSTEM_EVENT_STA_CONNECTED
          /\ tasks[t].r.reg_rxcb # ESP_OK
          /\ tasks[t].dret # ESP_OK
          /\ StaticValid(tasks[t])
    /\ ~adapter.sta_up /\ ~adapter.rxcb[WIFI_IF_STA] /\ ~adapter.dhcpc_started
    /\ posted # <<>>
    /\ \A x \in 1..Len(posted) : posted[x].by = "producer"

(***************************************************************************)
(* The sta_disconnected handler                                            *)
(***************************************************************************)
\* task t runs the default stage of a sta_disconnected event in this step
DisconnectedStep(t) ==
    HandlerStep(t) /\ tasks[t].evt.event_id = SYSTEM_EVENT_STA_DISCONNECTED

\* C35: after the default stage of a sta_disconnected event the station link
\* is down, whether esp_wifi_reg_rxcb(WIFI_IF_STA, NULL) succeeded or not;
\* when it failed, the handler returns its code and the inbound-packet
\* callback of the station is registered as it was before, with the link
\* down.
C35_LinkDownBeforeUnregister ==
    [][\A t \in Tasks :
          DisconnectedStep(t)
             => /\ ~adapter'.sta_up
                /\ tasks'[t].r.reg_rxcb # ESP_OK
                      => /\ adapter'.rxcb = adapter.rxcb
                         /\ tasks'[t].dret = tasks'[t].r.reg_rxcb
                /\ tasks'[t].r.reg_rxcb = ESP_OK => ~adapter'.rxcb[WIFI_IF_STA]]_vars

\* C35 where tcpip_adapter_down takes effect: the link is brought down
\* whatever esp_wifi_reg_rxcb returns afterwards
LinkDownWhenDownSucceeds ==
    [][\A t \in Tasks :
          (DisconnectedStep(t) /\ tasks'[t].r.tcpip_fail # "tcpip_adapter_down")
             => /\ ~adapter'.sta_up
                /\ tasks'[t].r.reg_rxcb # ESP_OK
                      => /\ adapter'.rxcb = adapter.rxcb
                         /\ tasks'[t].dret = tasks'[t].r.reg_rxcb
                /\ tasks'[t].r.reg_rxcb = ESP_OK => ~adapter'.rxcb[WIFI_IF_STA]]_vars

====
